---- MODULE Spec2Model ----
(***************************************************************************)
(* State-machine model of the background I/O bridge of `questionable`:     *)
(* NonBlockingApplication over ThreadPoolExecutor                          *)
(* (src/src/thread_pool.rs).  The consumer thread calls                    *)
(* read_note_in_background / save_note_in_background / set_dirty /         *)
(* get_note_mut / poll_background_tasks / pop_errors; worker threads take  *)
(* jobs from the shared queue, do the file I/O and send the result on the  *)
(* per-path pipe kept in background_tasks.                                 *)
(* The repository holds NonBlockingApplication twice: src/src/app.rs       *)
(* buffers failed results in error_msg, src/egui_app/src/src/app.rs has    *)
(* todo!() in that place.  Both are modelled; they differ only in the      *)
(* poll action (PollCore, PollEgui) and in pop_errors.                     *)
(***************************************************************************)
EXTENDS Integers, Sequences, FiniteSets, TLC

\* ---------------------------------------------------------------- bounds
NumWorkers == 2
MaxText == 1
MaxSaves == 2
MaxFailures == 2

Keys == {"a", "b"}          \* note paths
DirKey == "dir"             \* the base directory path
Workers == 1..NumWorkers
Texts == 0..MaxText         \* note bodies; 0 is the empty text
NoKey == "-"
ScratchPad == "a"           \* config.scratch_pad_path
Variants == {"core", "egui"}

\* ---------------------------------------------------------------- state
VARIABLES
    notes,          \* state.memory.notes : path -> MemoryCell<DataNode<Note>>
    dirs,           \* state.memory.dirs  : MemoryCell<DataNode<Directory>> of DirKey
    bg_notes,       \* background_tasks.notes : path -> pipe (open, buffered results)
    bg_dirs,        \* background_tasks.dirs  : pipe of DirKey
    error_msg,      \* error_msg : Vec<String>
    queue,          \* executor request channel (FIFO of boxed jobs)
    pc,             \* worker -> position in exec_loop
    cur,            \* worker -> job being executed
    fs,             \* file contents on disk, by path
    panicked,       \* the consumer thread has panicked (unwrap on None, todo!())
    variant,        \* which app.rs runs: "core" (src/src) or "egui" (src/egui_app)
    saves,          \* number of save jobs submitted so far (bounded by MaxSaves)
    failures,       \* number of I/O failures so far (bounded by MaxFailures)
    dirtied_after_save, \* history: set_dirty(k) was called after the latest save submission for k
    lastOp,         \* history: the operation the last step performed
    last_call,      \* the latest direct call of load_note / save_note and its result
    written,        \* history: path -> {text of the latest save_note}, {} if it failed
    captured,       \* history: path -> {text cloned by the latest save_note_in_background}
    last_write_ok,  \* history: path -> the latest save job that ended wrote the file
    entries,        \* Directory::entries of one directory: name -> object id
    name_call,      \* the latest add_entry_with_unique_name call and its outcome
    objects,        \* Storage::objects : id -> DataNode<DataType<V>>
    dir_tree,       \* Storage::dir_tree : TreeLike<ObjectId, DirNode>
    st_op,          \* history: the latest operation on the Storage
    clock,          \* unix_timestamp(): milliseconds since the process started
    ids,            \* the identifiers produced so far, in order
    id_call,        \* outcome of the latest IdGen::next call
    request_send,   \* ThreadPoolExecutor::request_send : Option<Sender<Executeable>>
    dropping,       \* position of Drop for ThreadPoolExecutor
    joined,         \* the workers whose thread drop has joined
    cells,          \* egui_app state.memory.notes with every MemoryCell variant: path -> cell
    state_call,     \* the latest note_state / note_is_pending / note_content_ui call and what it gave
    command_queue,  \* NotesApp::command_queue : VecDeque<Command>
    phase,          \* position of NotesApp::update within the tick
    current_note_path \* state.current_note_path

files_vars == <<last_call, written, captured, last_write_ok>>
names_vars == <<entries, name_call>>
storage_vars == <<objects, dir_tree, st_op>>
ids_vars == <<clock, ids, id_call>>
pool_vars == <<request_send, dropping, joined>>
view_vars == <<cells, state_call>>
tick_vars == <<command_queue, phase, current_note_path>>

\* the variables of the direct calls of single functions
calls == <<files_vars, names_vars, storage_vars, ids_vars, pool_vars, view_vars>>

\* the variables of the specifications that call single functions directly
others == <<calls, tick_vars>>

\* the variables of NonBlockingApplication and its executor
bridge == <<notes, dirs, bg_notes, bg_dirs, error_msg, queue, pc, cur, fs,
            panicked, variant, saves, failures, dirtied_after_save, lastOp>>

vars == <<notes, dirs, bg_notes, bg_dirs, error_msg, queue, pc, cur, fs,
          panicked, variant, saves, failures, dirtied_after_save, lastOp, others>>

\* ---------------------------------------------------------------- values
Absent == [tag |-> "Absent", text |-> 0, dirty |-> FALSE]
PendingRead == [tag |-> "PendingRead", text |-> 0, dirty |-> FALSE]
Value(text, dirty) == [tag |-> "Value", text |-> text, dirty |-> dirty]

NoJob == [kind |-> "none", key |-> NoKey, text |-> 0, dirty |-> FALSE]
Job(kind, key, text, dirty) == [kind |-> kind, key |-> key, text |-> text, dirty |-> dirty]

\* io::Result<DataNode<..>> as sent on a pipe; `kind` and `key` label the
\* message for the properties and stand for the text of a failure's io::Error.
Msg(ok, kind, key, text, dirty) ==
    [ok |-> ok, kind |-> kind, key |-> key, text |-> text, dirty |-> dirty]

NoPipe == [open |-> FALSE, buf |-> <<>>]
\* ids stand for the u64 values of AtomicTimestampRandIdGen, numbered in the
\* order the nodes are made
MaxObjects == 3
ObjectIds == 1..MaxObjects
RootId == CHOOSE i \in ObjectIds : \A j \in ObjectIds : i <= j

\* Option<T>: {} is None, {x} is Some(x)
None == {}
Some(x) == {x}

\* DataType::Dir(Directory { entries }) and DataType::File(V)
Dir == [type |-> "Dir", entries |-> <<>>]
File == [type |-> "File", entries |-> <<>>]

\* DataNode::new (storage.rs)
StorageNode(id, data) == [id |-> id, data |-> data, deletion_time |-> None]

\* DirNode::new
DirNode(dir_obj_id) == [dir_obj_id |-> dir_obj_id]

\* TreeLike::with_root
TreeWithRoot(key, value) ==
    [root |-> key, nodes |-> key :> [value |-> value, parent |-> None, children |-> <<>>]]

NoStOp == [op |-> "none", id |-> RootId, was |-> None, parent |-> None]
NoNameCall == [outcome |-> "none", candidate |-> <<>>, name |-> <<>>]
NoCall == [op |-> "none", key |-> NoKey, text |-> 0, result |-> Msg(FALSE, "none", NoKey, 0, FALSE)]
NoDrain == [k \in Keys |-> <<>>]
NoCell == [tag |-> "None", text |-> 0, dirty |-> FALSE, err |-> "none"]
NoStateCall == [key |-> NoKey, state |-> None, pending |-> FALSE, ui |-> "none"]
\* lastOp names the calls that leave no other trace in the state (a call that
\* returns early, a poll and what it drained); every other step records Step
Op(op, key) == [op |-> op, key |-> key, drained |-> NoDrain, ret |-> <<>>]
Step == Op("step", NoKey)

CellHasValue_AnyCell(cell) == cell.tag # "Absent"

\* MemoryCell::value / value_mut
CellHasValue(cell) == cell.tag = "Value"

\* note_is_dirty
NoteIsDirty(k) == CellHasValue(notes[k]) /\ notes[k].dirty

\* DataNode::new(data): dirty = false
DataNodeNew(text) == Value(text, FALSE)

\* ---------------------------------------------------------------- consumer thread
NoteInMemory_ValueOnly(k) == notes[k].tag = "Value"

\* note_in_memory
NoteInMemory(k) == notes[k].tag # "Absent"

\* dir_in_memory
DirInMemory == dirs.tag # "Absent"

\* the Entry::Vacant / Entry::Occupied match: open the pipe if there is none
OpenPipe(pipe) == [open |-> TRUE, buf |-> pipe.buf]

\* async_execute_file_task -> ThreadPoolExecutor::execute
\* every worker thread has panicked and dropped its Arc of the Receiver: the
\* request channel is disconnected
ReceiverDropped == \A w \in Workers : pc[w] = "dead"

\* request_send.send(Box::new(task)).unwrap(): send is Err once the receiver is
\* gone and the unwrap panics in the calling thread
Execute(job) ==
    IF ReceiverDropped
    THEN panicked' = TRUE /\ UNCHANGED queue
    ELSE queue' = Append(queue, job) /\ UNCHANGED panicked

ReadNote_NoCell(k) ==
    /\ ~panicked
    /\ IF NoteInMemory(k)
       THEN UNCHANGED <<bg_notes, queue, panicked>>
       ELSE /\ bg_notes' = [bg_notes EXCEPT ![k] = OpenPipe(@)]
            /\ Execute(Job("load", k, 0, FALSE))
    /\ lastOp' = IF NoteInMemory(k) THEN Op("read_hit", k) ELSE Step
    /\ UNCHANGED <<notes, dirs, bg_dirs, error_msg, pc, cur, fs, saves,
                   failures, dirtied_after_save, variant, others>>

\* read_note_in_background
ReadNoteInBackground(k) ==
    /\ ~panicked
    /\ IF NoteInMemory(k)
       THEN UNCHANGED <<notes, bg_notes, queue, panicked>>
       ELSE /\ notes' = [notes EXCEPT ![k] = PendingRead]
            /\ bg_notes' = [bg_notes EXCEPT ![k] = OpenPipe(@)]
            /\ Execute(Job("load", k, 0, FALSE))
    /\ lastOp' = IF NoteInMemory(k) THEN Op("read_hit", k) ELSE Step
    /\ UNCHANGED <<dirs, bg_dirs, error_msg, pc, cur, fs, saves,
                   failures, dirtied_after_save, variant>>

ReadNote(k) == ReadNoteInBackground(k) /\ UNCHANGED others

\* read_dir_in_background
ReadDirInBackground ==
    /\ ~panicked
    /\ IF DirInMemory
       THEN UNCHANGED <<dirs, bg_dirs, queue, panicked>>
       ELSE /\ dirs' = PendingRead
            /\ bg_dirs' = OpenPipe(bg_dirs)
            /\ Execute(Job("loaddir", DirKey, 0, FALSE))
    /\ lastOp' = IF DirInMemory THEN Op("read_hit", DirKey) ELSE Step
    /\ UNCHANGED <<notes, bg_notes, error_msg, pc, cur, fs, saves,
                   failures, dirtied_after_save, variant>>

ReadDir == ReadDirInBackground /\ UNCHANGED others

\* a set_dirty that would go through notes.entry(k) and create the cell
SetDirty_CreatesCell(k) ==
    /\ ~panicked
    /\ notes' = [notes EXCEPT ![k] =
                    IF CellHasValue(@) THEN [@ EXCEPT !.dirty = TRUE]
                    ELSE IF @ = Absent THEN Value(0, TRUE) ELSE @]
    /\ dirtied_after_save' =
          [dirtied_after_save EXCEPT ![k] = @ \/ CellHasValue(notes[k])]
    /\ lastOp' = IF CellHasValue(notes[k]) THEN Step ELSE Op("set_dirty_miss", k)
    /\ UNCHANGED <<dirs, bg_notes, bg_dirs, error_msg, queue, pc, cur, fs,
                   panicked, saves, failures, variant, others>>

\* set_dirty
MarkDirty(k) ==
    /\ ~panicked
    /\ notes' = [notes EXCEPT ![k] =
                    IF CellHasValue(@) THEN [@ EXCEPT !.dirty = TRUE] ELSE @]
    /\ dirtied_after_save' =
          [dirtied_after_save EXCEPT ![k] = @ \/ CellHasValue(notes[k])]
    /\ lastOp' = IF CellHasValue(notes[k]) THEN Step ELSE Op("set_dirty_miss", k)
    /\ UNCHANGED <<dirs, bg_notes, bg_dirs, error_msg, queue, pc, cur, fs,
                   panicked, saves, failures, variant>>

SetDirty(k) == MarkDirty(k) /\ UNCHANGED others

\* get_note_mut(k) followed by a write to data.text (the text editor widget)
EditNote(k, t) ==
    /\ ~panicked
    /\ CellHasValue(notes[k])
    /\ t # notes[k].text
    /\ notes' = [notes EXCEPT ![k].text = t]
    /\ lastOp' = Step
    /\ UNCHANGED <<dirs, bg_notes, bg_dirs, error_msg, queue, pc, cur, fs,
                   panicked, saves, failures, dirtied_after_save, variant, others>>

\* save_note_in_background: the pipe is looked up (and opened) first, then
\* get(path).and_then(value).unwrap() panics when the cell holds no value
SaveNoteInBackground(k) ==
    /\ ~panicked
    /\ saves < MaxSaves
    /\ bg_notes' = [bg_notes EXCEPT ![k] = OpenPipe(@)]
    /\ IF CellHasValue(notes[k])
       THEN /\ Execute(Job("save", k, notes[k].text, notes[k].dirty))
            /\ saves' = saves + 1
            /\ dirtied_after_save' = [dirtied_after_save EXCEPT ![k] = FALSE]
       ELSE /\ panicked' = TRUE
            /\ UNCHANGED <<queue, saves, dirtied_after_save>>
    /\ lastOp' = IF CellHasValue(notes[k]) THEN Step ELSE Op("save_panic", k)
    /\ UNCHANGED <<notes, dirs, bg_dirs, error_msg, pc, cur, fs, failures, variant>>

SaveNote(k) == SaveNoteInBackground(k) /\ UNCHANGED others

\* the same call, the text it cloned for the job recorded
SaveNoteRecorded(k) ==
    /\ SaveNoteInBackground(k)
    /\ captured' = IF CellHasValue(notes[k]) THEN [captured EXCEPT ![k] = {notes[k].text}]
                   ELSE captured
    /\ UNCHANGED <<last_call, written, last_write_ok, names_vars, storage_vars, ids_vars,
                   pool_vars, view_vars, tick_vars>>

ApplyNoteResult_DropOk(cell, msg) == cell

ApplyNoteResult_ErrCleans(cell, msg) ==
    IF msg.ok THEN Value(msg.text, msg.dirty) ELSE [cell EXCEPT !.dirty = FALSE]

\* the closure of rx.try_iter().for_each in poll_notes_tasks
ApplyNoteResult(cell, msg) ==
    IF msg.ok THEN Value(msg.text, msg.dirty) ELSE cell

\* the closure of rx.try_iter().for_each in poll_dir_tasks
ApplyDirResult(cell, msg) ==
    IF msg.ok THEN Value(msg.text, msg.dirty) ELSE cell

RECURSIVE DrainNotes(_, _)
DrainNotes(cell, msgs) ==
    IF msgs = <<>> THEN cell
    ELSE DrainNotes(ApplyNoteResult(cell, Head(msgs)), Tail(msgs))

RECURSIVE DrainDirs(_, _)
DrainDirs(cell, msgs) ==
    IF msgs = <<>> THEN cell
    ELSE DrainDirs(ApplyDirResult(cell, Head(msgs)), Tail(msgs))

\* err.to_string() of every failed result, in channel order
RECURSIVE Errors(_)
Errors(msgs) ==
    IF msgs = <<>> THEN <<>>
    ELSE (IF Head(msgs).ok THEN <<>> ELSE <<[kind |-> Head(msgs).kind, key |-> Head(msgs).key]>>)
         \o Errors(Tail(msgs))

\* iteration orders of HashMap::iter_mut over the note pipes
KeyOrders ==
    {s \in [1..Cardinality(Keys) -> Keys] :
        \A i, j \in 1..Cardinality(Keys) : s[i] = s[j] => i = j}

RECURSIVE ErrorsInOrder(_, _)
ErrorsInOrder(ord, i) ==
    IF i > Len(ord) THEN <<>>
    ELSE Errors(bg_notes[ord[i]].buf) \o ErrorsInOrder(ord, i + 1)

\* a poll that would wait for the workers to come to rest (recv instead of try_iter)
PollCore_WaitsForWorkers ==
    /\ ~panicked
    /\ variant = "core"
    /\ \A w \in Workers : pc[w] = "idle"
    /\ dirs' = DrainDirs(dirs, bg_dirs.buf)
    /\ bg_dirs' = [bg_dirs EXCEPT !.buf = <<>>]
    /\ notes' = [k \in Keys |-> DrainNotes(notes[k], bg_notes[k].buf)]
    /\ bg_notes' = [k \in Keys |-> [bg_notes[k] EXCEPT !.buf = <<>>]]
    /\ \E ord \in KeyOrders :
          error_msg' = error_msg \o Errors(bg_dirs.buf) \o ErrorsInOrder(ord, 1)
    /\ lastOp' = [op |-> "poll", key |-> NoKey,
                  drained |-> [k \in Keys |-> bg_notes[k].buf], ret |-> <<>>]
    /\ UNCHANGED <<queue, pc, cur, fs, panicked, saves, failures, dirtied_after_save,
                   variant, others>>

\* poll_background_tasks = poll_dir_tasks; poll_notes_tasks (src/src/app.rs):
\* a failed result is pushed on error_msg and the cell is left alone
PollCore ==
    /\ ~panicked
    /\ variant = "core"
    /\ dirs' = DrainDirs(dirs, bg_dirs.buf)
    /\ bg_dirs' = [bg_dirs EXCEPT !.buf = <<>>]
    /\ notes' = [k \in Keys |-> DrainNotes(notes[k], bg_notes[k].buf)]
    /\ bg_notes' = [k \in Keys |-> [bg_notes[k] EXCEPT !.buf = <<>>]]
    /\ \E ord \in KeyOrders :
          error_msg' = error_msg \o Errors(bg_dirs.buf) \o ErrorsInOrder(ord, 1)
    /\ lastOp' = [op |-> "poll", key |-> NoKey,
                  drained |-> [k \in Keys |-> bg_notes[k].buf], ret |-> <<>>]
    /\ UNCHANGED <<queue, pc, cur, fs, panicked, saves, failures, dirtied_after_save,
                   variant, others>>

\* index of the first failed result in a pipe, 0 when there is none
FirstErr(buf) ==
    IF \E i \in 1..Len(buf) : ~buf[i].ok
    THEN CHOOSE i \in 1..Len(buf) : ~buf[i].ok /\ \A j \in 1..(i - 1) : buf[j].ok
    ELSE 0

\* what try_iter hands out before the Err arm's todo!() unwinds, and what stays
Taken(buf) == IF FirstErr(buf) = 0 THEN buf ELSE SubSeq(buf, 1, FirstErr(buf))
Left(buf) == IF FirstErr(buf) = 0 THEN <<>> ELSE SubSeq(buf, FirstErr(buf) + 1, Len(buf))

\* position in the iteration (0 = the dir pipe, i = ord[i]) at which the poll
\* panics; Len(ord) + 1 when no landed result is a failure
PanicPos(ord) ==
    IF FirstErr(bg_dirs.buf) # 0 THEN 0
    ELSE IF \E i \in 1..Len(ord) : FirstErr(bg_notes[ord[i]].buf) # 0
         THEN CHOOSE i \in 1..Len(ord) :
                 /\ FirstErr(bg_notes[ord[i]].buf) # 0
                 /\ \A j \in 1..(i - 1) : FirstErr(bg_notes[ord[j]].buf) = 0
         ELSE Len(ord) + 1

PosOf(ord, k) == CHOOSE i \in 1..Len(ord) : ord[i] = k

\* poll_background_tasks (src/egui_app/src/src/app.rs): the Err arm is todo!(),
\* so the first failed result taken from a pipe panics the consumer thread;
\* results taken before it have been applied, the rest stays in the pipes
PollEguiTasks ==
    /\ ~panicked
    /\ variant = "egui"
    /\ dirs' = DrainDirs(dirs, Taken(bg_dirs.buf))
    /\ bg_dirs' = [bg_dirs EXCEPT !.buf = Left(@)]
    /\ \E ord \in KeyOrders :
         LET reached(k) == PosOf(ord, k) <= PanicPos(ord) IN
         /\ notes' = [k \in Keys |->
                IF reached(k) THEN DrainNotes(notes[k], Taken(bg_notes[k].buf)) ELSE notes[k]]
         /\ bg_notes' = [k \in Keys |->
                IF reached(k) THEN [bg_notes[k] EXCEPT !.buf = Left(@)] ELSE bg_notes[k]]
         /\ panicked' = (PanicPos(ord) <= Len(ord))
         /\ lastOp' = [op |-> IF PanicPos(ord) <= Len(ord) THEN "poll_panic" ELSE "poll",
                       key |-> NoKey,
                       drained |-> [k \in Keys |->
                           IF reached(k) THEN Taken(bg_notes[k].buf) ELSE <<>>],
                       ret |-> <<>>]
    /\ UNCHANGED <<error_msg, queue, pc, cur, fs, saves, failures, dirtied_after_save,
                   variant>>

PollEgui == PollEguiTasks /\ UNCHANGED others

PopErrors_KeepLast ==
    /\ ~panicked
    /\ variant = "core"
    /\ error_msg # <<>>
    /\ error_msg' = <<error_msg[Len(error_msg)]>>
    /\ lastOp' = [Op("pop_errors", NoKey) EXCEPT !.ret = error_msg]
    /\ UNCHANGED <<notes, dirs, bg_notes, bg_dirs, queue, pc, cur, fs, panicked,
                   saves, failures, dirtied_after_save, variant, others>>

\* pop_errors: self.error_msg.drain(..).collect()
PopErrors ==
    /\ ~panicked
    /\ variant = "core"
    /\ error_msg # <<>>
    /\ error_msg' = <<>>
    /\ lastOp' = [Op("pop_errors", NoKey) EXCEPT !.ret = error_msg]
    /\ UNCHANGED <<notes, dirs, bg_notes, bg_dirs, queue, pc, cur, fs, panicked,
                   saves, failures, dirtied_after_save, variant, others>>

\* ---------------------------------------------------------------- worker threads
\* a worker thread has ended by a panic
Poisoned == \E v \in Workers : pc[v] = "dead"

\* exec_loop: request_recv.lock().unwrap() -- the guard is a temporary of the
\* match scrutinee, so it is held until the match (and the job) has finished
\* (a guard dropped before the job runs)
WorkerLock_Unlocked(w) ==
    /\ pc[w] = "idle"
    /\ pc' = [pc EXCEPT ![w] = IF Poisoned THEN "dead" ELSE "recv"]
    /\ lastOp' = Step
    /\ UNCHANGED <<notes, dirs, bg_notes, bg_dirs, error_msg, queue, cur, fs,
                   panicked, saves, failures, dirtied_after_save, variant, others>>

\* a lock() whose caller would go on with a poisoned mutex (into_inner)
WorkerLock_IgnoresPoison(w) ==
    /\ pc[w] = "idle"
    /\ \A v \in Workers : pc[v] \notin {"recv", "exec"}
    /\ pc' = [pc EXCEPT ![w] = "recv"]
    /\ lastOp' = Step
    /\ UNCHANGED <<notes, dirs, bg_notes, bg_dirs, error_msg, queue, cur, fs,
                   panicked, saves, failures, dirtied_after_save, variant, others>>

\* a worker that panicked did so while it held the guard: the mutex is
\* poisoned, lock() returns Err and .unwrap() panics in the caller
WorkerLock(w) ==
    /\ pc[w] = "idle"
    /\ \A v \in Workers : pc[v] \notin {"recv", "exec"}
    /\ pc' = [pc EXCEPT ![w] = IF Poisoned THEN "dead" ELSE "recv"]
    /\ lastOp' = Step
    /\ UNCHANGED <<notes, dirs, bg_notes, bg_dirs, error_msg, queue, cur, fs,
                   panicked, saves, failures, dirtied_after_save, variant, others>>

WorkerRecv_TakesLast(w) ==
    /\ pc[w] = "recv"
    /\ queue # <<>>
    /\ cur' = [cur EXCEPT ![w] = queue[Len(queue)]]
    /\ queue' = SubSeq(queue, 1, Len(queue) - 1)
    /\ pc' = [pc EXCEPT ![w] = "exec"]
    /\ lastOp' = Step
    /\ UNCHANGED <<notes, dirs, bg_notes, bg_dirs, error_msg, fs, panicked, saves,
                   failures, dirtied_after_save, variant, others>>

\* exec_loop: .recv() returns Ok(executable)
WorkerRecv(w) ==
    /\ pc[w] = "recv"
    /\ queue # <<>>
    /\ cur' = [cur EXCEPT ![w] = Head(queue)]
    /\ queue' = Tail(queue)
    /\ pc' = [pc EXCEPT ![w] = "exec"]
    /\ lastOp' = Step
    /\ UNCHANGED <<notes, dirs, bg_notes, bg_dirs, error_msg, fs, panicked, saves,
                   failures, dirtied_after_save, variant, others>>

LoadNote_Default(k, io_ok) ==
    IF io_ok THEN Msg(TRUE, "load", k, 0, FALSE) ELSE Msg(FALSE, "load", k, 0, FALSE)

\* load_note: Ok(DataNode::new(Note::from_text(fs::read_to_string(path)?)))
LoadNote(k, io_ok) ==
    IF io_ok THEN Msg(TRUE, "load", k, DataNodeNew(fs[k]).text, DataNodeNew(fs[k]).dirty)
    ELSE Msg(FALSE, "load", k, 0, FALSE)

\* load_dir: Ok(DataNode::new(Directory::from_read_dir(fs::read_dir(path)?)))
LoadDir(io_ok) ==
    IF io_ok THEN Msg(TRUE, "loaddir", DirKey, 0, FALSE)
    ELSE Msg(FALSE, "loaddir", DirKey, 0, FALSE)

\* save_note: fs::write(path, &note.data.text)?; clone; dirty = false; Ok(clone)
SaveNoteResult(job, io_ok) ==
    IF io_ok THEN Msg(TRUE, "save", job.key, job.text, FALSE)
    ELSE Msg(FALSE, "save", job.key, 0, FALSE)

\* fs::write(path, text): File::create empties the file, then write_all; a
\* failure comes either before the file was created or after
WriteFile(f, k, t, io_ok, created) ==
    IF io_ok THEN [f EXCEPT ![k] = t]
    ELSE IF created THEN [f EXCEPT ![k] = 0]
    ELSE f

WorkerExec_SilentOnErr(w) ==
    /\ pc[w] = "exec"
    /\ \E io_ok \in BOOLEAN, created \in BOOLEAN :
         LET job == cur[w] IN
         /\ io_ok \/ failures < MaxFailures
         /\ failures' = IF io_ok THEN failures ELSE failures + 1
         /\ fs' = IF job.kind = "save" THEN WriteFile(fs, job.key, job.text, io_ok, created)
                  ELSE fs
         /\ bg_notes' = IF io_ok /\ job.kind # "loaddir"
                THEN [bg_notes EXCEPT ![job.key].buf =
                        Append(@, IF job.kind = "load" THEN LoadNote(job.key, io_ok)
                                  ELSE SaveNoteResult(job, io_ok))]
                ELSE bg_notes
         /\ bg_dirs' = IF io_ok /\ job.kind = "loaddir"
                THEN [bg_dirs EXCEPT !.buf = Append(@, LoadDir(io_ok))] ELSE bg_dirs
         /\ lastOp' = Step
    /\ pc' = [pc EXCEPT ![w] = "idle"]
    /\ cur' = [cur EXCEPT ![w] = NoJob]
    /\ UNCHANGED <<notes, dirs, error_msg, queue, panicked, saves, dirtied_after_save,
                   variant, others>>

\* the closure built by async_execute_file_task: task_fn(&path) then
\* result_pipe.send(..); the queue guard is released when it returns
RunJob(w) ==
    /\ pc[w] = "exec"
    /\ \E io_ok \in BOOLEAN, created \in BOOLEAN :
         LET job == cur[w] IN
         /\ io_ok \/ failures < MaxFailures
         /\ failures' = IF io_ok THEN failures ELSE failures + 1
         /\ fs' = IF job.kind = "save" THEN WriteFile(fs, job.key, job.text, io_ok, created)
                  ELSE fs
         /\ IF job.kind = "loaddir"
            THEN /\ bg_dirs' = [bg_dirs EXCEPT !.buf = Append(@, LoadDir(io_ok))]
                 /\ UNCHANGED bg_notes
            ELSE /\ bg_notes' = [bg_notes EXCEPT ![job.key].buf =
                        Append(@, IF job.kind = "load" THEN LoadNote(job.key, io_ok)
                                  ELSE SaveNoteResult(job, io_ok))]
                 /\ UNCHANGED bg_dirs
         /\ lastOp' = Step
    /\ pc' = [pc EXCEPT ![w] = "idle"]
    /\ cur' = [cur EXCEPT ![w] = NoJob]
    /\ UNCHANGED <<notes, dirs, error_msg, queue, panicked, saves, dirtied_after_save,
                   variant>>

WorkerExec(w) == RunJob(w) /\ UNCHANGED others

\* the same step, the outcome of a save job's write recorded
WorkerExecRecorded(w) ==
    /\ RunJob(w)
    /\ last_write_ok' =
          IF cur[w].kind = "save"
          THEN [last_write_ok EXCEPT ![cur[w].key] =
                   bg_notes'[cur[w].key].buf[Len(bg_notes'[cur[w].key].buf)].ok]
          ELSE last_write_ok
    /\ UNCHANGED <<last_call, written, captured, names_vars, storage_vars, ids_vars,
                   pool_vars, view_vars, tick_vars>>

\* exec_loop: .recv() returns Err(_) -- the channel is empty and the sender
\* has been dropped -- and the loop breaks; the thread ends
WorkerRecvErr(w) ==
    /\ pc[w] = "recv"
    /\ queue = <<>>
    /\ request_send = None
    /\ pc' = [pc EXCEPT ![w] = "exited"]
    /\ lastOp' = Step
    /\ UNCHANGED <<notes, dirs, bg_notes, bg_dirs, error_msg, queue, cur, fs,
                   panicked, saves, failures, dirtied_after_save, variant, others>>

\* the load_dir job panics in Directory::from_read_dir (unreachable!() for an
\* entry that is neither a directory nor a file, .into_string().unwrap() for
\* a name that is not UTF-8): the closure sends nothing and the worker
\* thread unwinds out of exec_loop
WorkerPanic(w) ==
    /\ pc[w] = "exec"
    /\ cur[w].kind = "loaddir"
    /\ pc' = [pc EXCEPT ![w] = "dead"]
    /\ cur' = [cur EXCEPT ![w] = NoJob]
    /\ lastOp' = Step
    /\ UNCHANGED <<notes, dirs, bg_notes, bg_dirs, error_msg, queue, fs,
                   panicked, saves, failures, dirtied_after_save, variant, others>>

\* ---------------------------------------------------------------- Drop for ThreadPoolExecutor
\* NonBlockingApplication goes out of scope: its fields are dropped in the
\* order of declaration, the executor before background_tasks.
\* std::mem::drop(self.request_send.take())
DropExecutor ==
    /\ dropping = "no"
    /\ request_send' = None
    /\ dropping' = "joining"
    /\ UNCHANGED <<bridge, files_vars, names_vars, storage_vars, ids_vars, joined, view_vars, tick_vars>>

Ended(w) == pc[w] \in {"exited", "dead"}

\* the worker drop joins next: self.workers in the order of spawning
NextToJoin == CHOOSE w \in Workers \ joined : \A v \in Workers \ joined : w <= v

\* thread.join().unwrap(): join returns when the thread has ended, with Err
\* when it ended by a panic
JoinWorker ==
    /\ dropping = "joining"
    /\ joined # Workers
    /\ Ended(NextToJoin)
    /\ IF pc[NextToJoin] = "dead"
       THEN dropping' = "panicked" /\ UNCHANGED joined
       ELSE /\ joined' = joined \cup {NextToJoin}
            /\ dropping' = IF joined' = Workers THEN "returned" ELSE "joining"
    /\ UNCHANGED <<bridge, files_vars, names_vars, storage_vars, ids_vars, request_send, view_vars, tick_vars>>

\* ---------------------------------------------------------------- specification
\* the files found on disk at start: "a" is empty, "b" holds text
InitialFs == [k \in Keys |-> IF k = "a" THEN 0 ELSE MaxText]

\* NonBlockingApplication::init
NewApplication ==
    /\ notes = [k \in Keys |-> Absent]
    /\ dirs = Absent
    /\ bg_notes = [k \in Keys |-> NoPipe]
    /\ bg_dirs = NoPipe
    /\ error_msg = <<>>
    /\ queue = <<>>
    /\ pc = [w \in Workers |-> "idle"]
    /\ cur = [w \in Workers |-> NoJob]
    /\ panicked = FALSE
    /\ saves = 0
    /\ failures = 0
    /\ dirtied_after_save = [k \in Keys |-> FALSE]
    /\ lastOp = Step

\* no function has been called directly
NoFunctionCalls ==
    /\ last_call = NoCall
    /\ written = [k \in Keys |-> {}]
    /\ captured = [k \in Keys |-> {}]
    /\ last_write_ok = [k \in Keys |-> FALSE]
    /\ entries = <<>>
    /\ name_call = NoNameCall
    /\ objects = RootId :> StorageNode(RootId, Dir)
    /\ dir_tree = TreeWithRoot(RootId, DirNode(RootId))
    /\ st_op = NoStOp
    /\ clock = 0
    /\ ids = <<>>
    /\ id_call = "none"
    /\ request_send = Some("sender")
    /\ dropping = "no"
    /\ joined = {}
    /\ state_call = NoStateCall
    /\ command_queue = <<>>
    /\ phase = "drain"
    /\ current_note_path = ScratchPad

NoCalls == NoFunctionCalls /\ cells = [k \in Keys |-> NoCell]

Init ==
    /\ NewApplication
    /\ fs = InitialFs
    /\ variant \in Variants
    /\ NoCalls

Next ==
    \/ \E k \in Keys : ReadNote(k)
    \/ \E k \in Keys : SetDirty(k)
    \/ \E k \in Keys, t \in Texts : EditNote(k, t)
    \/ \E k \in Keys : SaveNote(k)
    \/ PollCore
    \/ PollEgui
    \/ PopErrors
    \/ \E w \in Workers : WorkerLock(w)
    \/ \E w \in Workers : WorkerRecv(w)
    \/ \E w \in Workers : WorkerExec(w)

Spec == Init /\ [][Next]_vars

\* src/src/app.rs with the directory cache in use as well
InitDirs == Init /\ variant = "core"

NextDirs ==
    \/ \E k \in Keys : ReadNote(k)
    \/ ReadDir
    \/ \E k \in Keys : SetDirty(k)
    \/ \E k \in Keys, t \in Texts : EditNote(k, t)
    \/ \E k \in Keys : SaveNote(k)
    \/ PollCore
    \/ PopErrors
    \/ \E w \in Workers : WorkerLock(w)
    \/ \E w \in Workers : WorkerRecv(w)
    \/ \E w \in Workers : WorkerExec(w)
    \/ \E w \in Workers : WorkerPanic(w)

SpecDirs == InitDirs /\ [][NextDirs]_vars

\* the worker threads are OS threads: each one that can take the queue lock,
\* receive a job or finish its job is eventually scheduled to do so
WorkersFair ==
    \A w \in Workers :
        /\ WF_vars(WorkerLock(w))
        /\ WF_vars(WorkerRecv(w))
        /\ WF_vars(WorkerExec(w))

\* src/src/app.rs without the directory cache
NextCore ==
    \/ \E k \in Keys : ReadNote(k)
    \/ \E k \in Keys : SetDirty(k)
    \/ \E k \in Keys, t \in Texts : EditNote(k, t)
    \/ \E k \in Keys : SaveNote(k)
    \/ PollCore
    \/ PopErrors
    \/ \E w \in Workers : WorkerLock(w)
    \/ \E w \in Workers : WorkerRecv(w)
    \/ \E w \in Workers : WorkerExec(w)

SpecCore == InitDirs /\ [][NextCore]_vars

SpecFair == InitDirs /\ [][NextCore]_vars /\ WorkersFair

\* ---------------------------------------------------------------- the executor's life
\* the application is used until it is dropped
Alive == dropping = "no"

NextPool ==
    \/ \E k \in Keys : Alive /\ ReadNote(k)
    \/ Alive /\ ReadDir
    \/ \E k \in Keys : Alive /\ SaveNote(k)
    \/ Alive /\ PollCore
    \/ \E w \in Workers : WorkerLock(w)
    \/ \E w \in Workers : WorkerRecv(w)
    \/ \E w \in Workers : WorkerRecvErr(w)
    \/ \E w \in Workers : WorkerExec(w)
    \/ \E w \in Workers : WorkerPanic(w)
    \/ DropExecutor
    \/ JoinWorker

SpecPool == InitDirs /\ [][NextPool]_vars

\* the worker threads and the thread that drops the executor are OS threads:
\* each step of theirs that stays possible is eventually taken
PoolFair ==
    /\ \A w \in Workers :
          /\ WF_vars(WorkerLock(w))
          /\ WF_vars(WorkerRecv(w))
          /\ WF_vars(WorkerRecvErr(w))
          /\ WF_vars(WorkerExec(w) \/ WorkerPanic(w))
    /\ WF_vars(JoinWorker)

SpecPoolFair == InitDirs /\ [][NextPool]_vars /\ PoolFair

\* ---------------------------------------------------------------- saves of one note
\* src/src/app.rs used to load, edit and save notes, with what each save
\* cloned and how each write ended kept for reference
NextSaves ==
    \/ \E k \in Keys : ReadNote(k)
    \/ \E k \in Keys, t \in Texts : EditNote(k, t)
    \/ \E k \in Keys : SaveNoteRecorded(k)
    \/ PollCore
    \/ \E w \in Workers : WorkerLock(w)
    \/ \E w \in Workers : WorkerRecv(w)
    \/ \E w \in Workers : WorkerExecRecorded(w)

SpecSaves == InitDirs /\ [][NextSaves]_vars

\* ---------------------------------------------------------------- load_note / save_note
\* the file functions called one after the other on the same disk, as the
\* jobs of successive runs of the application do
CallSaveNote(k, t, d, io_ok, created) ==
    /\ last_call' = [op |-> "save", key |-> k, text |-> t,
                     result |-> SaveNoteResult(Job("save", k, t, d), io_ok)]
    /\ fs' = WriteFile(fs, k, t, io_ok, created)
    /\ written' = [written EXCEPT ![k] = IF io_ok THEN {t} ELSE {}]
    /\ UNCHANGED <<notes, dirs, bg_notes, bg_dirs, error_msg, queue, pc, cur,
                   panicked, variant, saves, failures, dirtied_after_save, lastOp,
                   captured, last_write_ok, names_vars, storage_vars, ids_vars, pool_vars, view_vars, tick_vars>>

CallLoadNote(k, io_ok) ==
    /\ last_call' = [op |-> "load", key |-> k, text |-> 0, result |-> LoadNote(k, io_ok)]
    /\ UNCHANGED <<notes, dirs, bg_notes, bg_dirs, error_msg, queue, pc, cur, fs,
                   panicked, variant, saves, failures, dirtied_after_save, lastOp,
                   written, captured, last_write_ok, names_vars, storage_vars, ids_vars,
                   pool_vars, view_vars, tick_vars>>

InitFiles ==
    /\ NewApplication
    /\ fs \in [Keys -> Texts]
    /\ variant = "core"
    /\ NoCalls

NextFiles ==
    \/ \E k \in Keys, t \in Texts, d \in BOOLEAN, io_ok \in BOOLEAN, created \in BOOLEAN :
          CallSaveNote(k, t, d, io_ok, created)
    \/ \E k \in Keys, io_ok \in BOOLEAN : CallLoadNote(k, io_ok)

SpecFiles == InitFiles /\ [][NextFiles]_vars

\* ---------------------------------------------------------------- generate_unique_name
\* A name is the sequence of its characters.  The candidate is pasted into the
\* pattern unescaped, so "+" in it is the repetition operator of the regex.
MaxAdds == 3
I32Max == 2147483647
I32Min == -I32Max - 1

DigitChars == <<"0", "1", "2", "3", "4", "5", "6", "7", "8", "9">>
IsDigit(c) == \E i \in 1..10 : DigitChars[i] = c
DigitVal(c) == (CHOOSE i \in 1..10 : DigitChars[i] = c) - 1

\* format!("{i}") of a non-negative i32
RECURSIVE ToDigits(_)
ToDigits(i) ==
    IF i < 10 THEN <<DigitChars[i + 1]>>
    ELSE Append(ToDigits(i \div 10), DigitChars[(i % 10) + 1])

\* str::parse::<i32>() of a digit string: {value}, or {} when it does not fit
RECURSIVE ParseAcc(_, _)
ParseAcc(ds, acc) ==
    IF ds = <<>> THEN {acc}
    ELSE IF acc > (I32Max - DigitVal(Head(ds))) \div 10 THEN {}
    ELSE ParseAcc(Tail(ds), acc * 10 + DigitVal(Head(ds)))

ParseI32(ds) == ParseAcc(ds, 0)

\* format!("{candidate_name} #{i}")
WithCount(candidate_name, i) == candidate_name \o <<" ", "#">> \o ToDigits(i)

\* the names the model draws candidates from
Bases == {<<"a">>, <<"a", "+">>}
Numerals == {<<"1">>, <<"2">>, <<"0", "1">>, ToDigits(I32Max),
             <<"2", "1", "4", "7", "4", "8", "3", "6", "4", "8">>}
SmallNumerals == {<<"1">>, <<"2">>}
Names ==
    Bases
    \cup {b \o <<" ", "#">> \o n : b \in Bases, n \in Numerals}
    \cup {b \o <<" ", "#">> \o n \o <<" ", "#">> \o m :
            b \in Bases, n \in SmallNumerals, m \in SmallNumerals}

\* the lengths of the prefixes of s that the candidate, read as a regex,
\* matches: a character stands for itself, "+" repeats the one before it
RECURSIVE CandEnds(_, _, _, _)
CandEnds(cand, i, s, ends) ==
    IF i > Len(cand) THEN ends
    ELSE LET c == cand[i]
             plus == i < Len(cand) /\ cand[i + 1] = "+"
             once == {p + 1 : p \in {q \in ends : q < Len(s) /\ s[q + 1] = c}}
             many == {q \in 1..Len(s) :
                        \E p \in ends : p < q /\ \A x \in (p + 1)..q : s[x] = c}
         IN CandEnds(cand, IF plus THEN i + 2 ELSE i + 1, s, IF plus THEN many ELSE once)

\* the run of digits at the head of s
RECURSIVE DigitRun(_)
DigitRun(s) ==
    IF s # <<>> /\ IsDigit(Head(s)) THEN <<Head(s)>> \o DigitRun(Tail(s)) ELSE <<>>

\* ( #(?<count>\d+))*$ on the rest of the name: whether it matches, and the
\* digits of the last repetition of the group (<<>> when it never took part)
RECURSIVE Groups(_, _)
Groups(rest, last) ==
    IF rest = <<>> THEN [ok |-> TRUE, count |-> last]
    ELSE IF Len(rest) >= 3 /\ rest[1] = " " /\ rest[2] = "#" /\ IsDigit(rest[3])
    THEN LET ds == DigitRun(SubSeq(rest, 3, Len(rest)))
         IN Groups(SubSeq(rest, 3 + Len(ds), Len(rest)), ds)
    ELSE [ok |-> FALSE, count |-> <<>>]

\* Regex::new(^{candidate_name}( #(?<count>\d+))*$).captures(existing_name):
\* the splits of the name into candidate part and groups
Captures(candidate_name, existing_name) ==
    {p \in CandEnds(candidate_name, 1, existing_name, {0}) :
        Groups(SubSeq(existing_name, p + 1, Len(existing_name)), <<>>).ok}

start_count == 1

\* caps.name("count").and_then(|c| c.as_str().parse::<i32>().ok()).unwrap_or(start_count)
CountOf(candidate_name, existing_name) ==
    LET caps == Captures(candidate_name, existing_name)
        p == CHOOSE x \in caps : \A y \in caps : y <= x
        ds == Groups(SubSeq(existing_name, p + 1, Len(existing_name)), <<>>).count
    IN IF ds = <<>> \/ ParseI32(ds) = {} THEN start_count
       ELSE CHOOSE v \in ParseI32(ds) : TRUE

\* generate_unique_name; overflow_checks tells whether max_count + 1 panics
\* on overflow (debug build) or wraps (release build)
GenerateUniqueName(existing_names, candidate_name, overflow_checks) ==
    LET counts == {CountOf(candidate_name, e) :
                     e \in {x \in existing_names : Captures(candidate_name, x) # {}}}
        max_count == IF counts = {} THEN -1
                     ELSE CHOOSE m \in counts : \A c \in counts : c <= m
        last == IF max_count = I32Max THEN I32Min ELSE max_count + 1
        \* the first i of start_count..=last that is no key of counts; it is
        \* at most one more than the number of keys
        free == {i \in start_count..(Cardinality(counts) + 1) : i <= last /\ i \notin counts}
        i == CHOOSE x \in free : \A y \in free : x <= y
    IN IF max_count = I32Max /\ overflow_checks
       THEN [outcome |-> "panic", candidate |-> candidate_name, name |-> <<>>]
       ELSE [outcome |-> "ok", candidate |-> candidate_name,
             name |-> IF free = {} THEN candidate_name
                      ELSE IF i = 0 THEN candidate_name
                      ELSE WithCount(candidate_name, i)]

\* HashMap::insert(name, id)
Insert(map, name, id) ==
    [n \in (DOMAIN map) \cup {name} |-> IF n = name THEN id ELSE map[n]]

\* Directory::add_entry_with_unique_name; the ids are those of the objects
\* in the order they are added
AddEntryWithUniqueName(name, overflow_checks) ==
    /\ name_call.outcome # "panic"
    /\ Cardinality(DOMAIN entries) < MaxAdds
    /\ LET r == GenerateUniqueName(DOMAIN entries, name, overflow_checks) IN
       /\ name_call' = r
       /\ entries' = IF r.outcome = "ok"
                     THEN Insert(entries, r.name, Cardinality(DOMAIN entries) + 1)
                     ELSE entries
    /\ UNCHANGED <<bridge, files_vars, storage_vars, ids_vars, pool_vars, view_vars, tick_vars>>

\* Directory::with_name
InitNames ==
    /\ NewApplication
    /\ fs = InitialFs
    /\ variant = "core"
    /\ NoCalls

NextNames ==
    \E name \in Names, overflow_checks \in BOOLEAN :
        AddEntryWithUniqueName(name, overflow_checks)

SpecNames == InitNames /\ [][NextNames]_vars

\* ---------------------------------------------------------------- IdGen
\* An identifier is timestamp << 24 | (counter & 0x0FFF) << 12 | (random & 0x0FFF):
\* three bit fields that do not overlap, so the u64 is kept as the record of
\* its fields.  The timestamp field is counted from the start of the process.
MaxIds == 3
MaxClock == 1
U16Max == 65535

\* the values rand::rng().random::<u16>() is drawn from
RandU16 == {0, 4095, 4096, U16Max}

\* x & 0x0FFF
Low12(x) == x % 4096

\* the packing of the three fields into the u64
Pack(timestamp, cnt, random) ==
    [timestamp |-> timestamp, cnt |-> Low12(cnt), random |-> Low12(random)]

\* TimestampRandIdGen::new / AtomicTimestampRandIdGen::new
IdGenNew(seed, now) == [rand_seed_cnt |-> seed, timestamp_cnt |-> now]

Max(a, b) == IF a >= b THEN a ELSE b

\* TimestampRandIdGen::next: the counter is bumped first (u16, the addition
\* panics with overflow checks and wraps without), the timestamp is
\* max(now, previous + 1)
TimestampRandIdGenNext(gen, now, random, overflow_checks) ==
    IF gen.rand_seed_cnt = U16Max /\ overflow_checks
    THEN [outcome |-> "panic", id |-> Pack(0, 0, 0)]
    ELSE [outcome |-> "ok",
          id |-> Pack(Max(now, gen.timestamp_cnt + 1),
                      (gen.rand_seed_cnt + 1) % (U16Max + 1), random)]

\* AtomicTimestampRandIdGen::next: fetch_add and fetch_max return the values
\* held before the update
AtomicTimestampRandIdGenNext(gen, now, random) ==
    [outcome |-> "ok", id |-> Pack(gen.timestamp_cnt, gen.rand_seed_cnt, random)]

\* the call r of next() is recorded; adv is the time that passed between
\* new() and next()
IdProduced(r, adv) ==
    /\ id_call' = r.outcome
    /\ ids' = IF r.outcome = "ok" THEN Append(ids, r.id) ELSE ids
    /\ clock' = clock + adv
    /\ UNCHANGED <<bridge, files_vars, names_vars, storage_vars, pool_vars, view_vars, tick_vars>>

\* Note::new / NoteFolder::new: id: TimestampRandIdGen::new().next()
NoteNewId(seed, random, adv, overflow_checks) ==
    /\ id_call # "panic"
    /\ Len(ids) < MaxIds
    /\ clock + adv <= MaxClock
    /\ IdProduced(TimestampRandIdGenNext(IdGenNew(seed, clock), clock + adv,
                                         random, overflow_checks), adv)

\* DataNode::new: id: AtomicTimestampRandIdGen::new().next()
DataNodeNewId(seed, random, adv) ==
    /\ id_call # "panic"
    /\ Len(ids) < MaxIds
    /\ clock + adv <= MaxClock
    /\ IdProduced(AtomicTimestampRandIdGenNext(IdGenNew(seed, clock), clock + adv,
                                               random), adv)

\* a millisecond passes
Tick ==
    /\ id_call # "panic"
    /\ clock < MaxClock
    /\ clock' = clock + 1
    /\ UNCHANGED <<bridge, files_vars, names_vars, storage_vars, pool_vars, ids, id_call, view_vars, tick_vars>>

InitIds ==
    /\ NewApplication
    /\ fs = InitialFs
    /\ variant = "core"
    /\ NoCalls

NextIds ==
    \/ \E seed \in RandU16, random \in RandU16, adv \in 0..1, overflow_checks \in BOOLEAN :
          NoteNewId(seed, random, adv, overflow_checks)
    \/ \E seed \in RandU16, random \in RandU16, adv \in 0..1 :
          DataNodeNewId(seed, random, adv)
    \/ Tick

SpecIds == InitIds /\ [][NextIds]_vars

\* ---------------------------------------------------------------- Storage
MaxEntries == 2
MaxEdges == 2
StPanicked == st_op.op = "add_dir_panic"

\* the candidate names the callers pass
EntryNames == {<<"a">>}

\* the ids DataNode::new can give the next node: an id not in use or, as the
\* generator is made anew for every node, the id of a node made earlier
NewIds_Fresh == {i \in ObjectIds : i = Cardinality(DOMAIN objects) + 1}

NewIds == {i \in ObjectIds : i <= Cardinality(DOMAIN objects) + 1}

\* TreeLike::get_node
TreeGetNode(tree, key) ==
    IF key \in DOMAIN tree.nodes THEN Some(tree.nodes[key]) ELSE None

\* TreeLike::get_children
TreeGetChildren(tree, key) ==
    IF key \in DOMAIN tree.nodes THEN Some(tree.nodes[key].children) ELSE None

\* TreeLike::add_node on a parent that is in the tree: the value is stored
\* under the key, the parent recorded for the key, the key appended to the
\* parent's children; a key that is in the tree keeps its own children
TreeAddNode(tree, parent, key, value) ==
    [tree EXCEPT !.nodes =
        [k \in (DOMAIN tree.nodes) \cup {key} |->
            LET old == IF k \in DOMAIN tree.nodes THEN tree.nodes[k]
                       ELSE [value |-> value, parent |-> None, children |-> <<>>]
                put == IF k = key THEN [old EXCEPT !.value = value, !.parent = Some(parent)]
                       ELSE old
            IN IF k = parent THEN [put EXCEPT !.children = Append(@, key)] ELSE put]]

\* the number of parent-child links of the tree
RECURSIVE SumChildren(_, _)
SumChildren(tree, ks) ==
    IF ks = {} THEN 0
    ELSE LET k == CHOOSE x \in ks : TRUE
         IN Len(tree.nodes[k].children) + SumChildren(tree, ks \ {k})

TreeEdges(tree) == SumChildren(tree, DOMAIN tree.nodes)

Deleted_DropsEntries(node) ==
    [node EXCEPT !.deletion_time = Some("now"), !.data.entries = <<>>]

\* DataNode::delete
Deleted(node) == [node EXCEPT !.deletion_time = Some("now")]

Restored_StaysDeleted(node) == node

\* DataNode::restore
Restored(node) == [node EXCEPT !.deletion_time = None]

\* DataNode::is_deleted
IsDeleted(node) == node.deletion_time # None

\* Storage::add_dir: the node is put into objects first, then add_node
\* .expect(..) panics when the parent is not in the tree
StAddDir(parent_dir_id) ==
    /\ ~StPanicked
    /\ \E id \in NewIds :
         /\ objects' = Insert(objects, id, StorageNode(id, Dir))
         /\ IF parent_dir_id \in DOMAIN dir_tree.nodes
            THEN /\ TreeEdges(dir_tree) < MaxEdges
                 /\ dir_tree' = TreeAddNode(dir_tree, parent_dir_id, id, DirNode(id))
                 /\ st_op' = [op |-> "add_dir", id |-> id, was |-> None,
                               parent |-> Some(parent_dir_id)]
            ELSE /\ UNCHANGED dir_tree
                 /\ st_op' = [op |-> "add_dir_panic", id |-> id, was |-> None,
                               parent |-> Some(parent_dir_id)]
    /\ UNCHANGED <<bridge, files_vars, names_vars, ids_vars, pool_vars, view_vars, tick_vars>>

\* Storage::add_object
StAddObject ==
    /\ ~StPanicked
    /\ \E id \in NewIds :
         /\ objects' = Insert(objects, id, StorageNode(id, File))
         /\ st_op' = [op |-> "add_object", id |-> id, was |-> None, parent |-> None]
    /\ UNCHANGED <<bridge, files_vars, names_vars, ids_vars, pool_vars, dir_tree, view_vars, tick_vars>>

\* the (directory, name) pairs of all entries in the store
AllEntries ==
    {e \in (DOMAIN objects) \X Names :
        objects[e[1]].data.type = "Dir" /\ e[2] \in DOMAIN objects[e[1]].data.entries}

\* get_object_mut(dir_id) -> as_dir_mut -> Directory::add_entry_with_unique_name(id, name)
StAddEntry(dir_id, id, name, overflow_checks) ==
    /\ ~StPanicked
    /\ dir_id \in DOMAIN objects
    /\ objects[dir_id].data.type = "Dir"
    /\ id \in DOMAIN objects
    /\ Cardinality(AllEntries) < MaxEntries
    /\ LET r == GenerateUniqueName(DOMAIN objects[dir_id].data.entries, name, overflow_checks) IN
       /\ r.outcome = "ok"
       /\ objects' = [objects EXCEPT ![dir_id].data.entries = Insert(@, r.name, id)]
    /\ st_op' = [op |-> "add_entry", id |-> id, was |-> None, parent |-> None]
    /\ UNCHANGED <<bridge, files_vars, names_vars, ids_vars, pool_vars, dir_tree, view_vars, tick_vars>>

\* get_object_mut(id) -> DataNode::delete
StDelete(id) ==
    /\ ~StPanicked
    /\ id \in DOMAIN objects
    /\ objects' = [objects EXCEPT ![id] = Deleted(@)]
    /\ st_op' = [op |-> "delete", id |-> id, was |-> objects[id].deletion_time, parent |-> None]
    /\ UNCHANGED <<bridge, files_vars, names_vars, ids_vars, pool_vars, dir_tree, view_vars, tick_vars>>

\* get_object_mut(id) -> DataNode::restore
StRestore(id) ==
    /\ ~StPanicked
    /\ id \in DOMAIN objects
    /\ objects' = [objects EXCEPT ![id] = Restored(@)]
    /\ st_op' = [op |-> "restore", id |-> id, was |-> objects[id].deletion_time, parent |-> None]
    /\ UNCHANGED <<bridge, files_vars, names_vars, ids_vars, pool_vars, dir_tree, view_vars, tick_vars>>

\* Storage::get_object
GetObject(id) == IF id \in DOMAIN objects THEN Some(objects[id]) ELSE None

\* Storage::get_dir_parent_id
GetDirParentId(dir_id) ==
    IF TreeGetNode(dir_tree, dir_id) = None THEN None ELSE dir_tree.nodes[dir_id].parent

\* Storage::get_sub_directories: the ids of the nodes it returns, in order
GetSubDirectories(dir_id) ==
    IF TreeGetChildren(dir_tree, dir_id) = None THEN None
    ELSE Some(SelectSeq(dir_tree.nodes[dir_id].children,
                        LAMBDA id : ~IsDeleted(objects[id])))

\* Storage::find_file_dir: the directories whose entries bind file_id; the
\* one returned is the first in the iteration order of the HashMap
FindFileDir(file_id) ==
    {d \in DOMAIN objects :
        /\ objects[d].data.type = "Dir"
        /\ \E n \in DOMAIN objects[d].data.entries : objects[d].data.entries[n] = file_id}

Reverse(seq) == [i \in 1..Len(seq) |-> seq[Len(seq) + 1 - i]]

\* the loop of get_object_path: the node's value, then its ancestors'
RECURSIVE WalkUp(_)
WalkUp(key) ==
    LET node == dir_tree.nodes[key]
    IN <<node.value>> \o (IF node.parent = None THEN <<>>
                          ELSE WalkUp(CHOOSE p \in node.parent : TRUE))

\* the loop of get_object_path started at key comes back to a node in seen
\* or to key: it never ends
RECURSIVE Loops(_, _)
Loops(key, seen) ==
    LET node == dir_tree.nodes[key]
    IN /\ node.parent # None
       /\ LET p == CHOOSE x \in node.parent : TRUE
          IN p \in seen \cup {key} \/ Loops(p, seen \cup {key})

NoPath == [tag |-> "None", path |-> <<>>]
SomePath(path) == [tag |-> "Some", path |-> path]
Diverges == [tag |-> "Diverges", path |-> <<>>]

\* get_object_path when find_file_dir gave directory d
PathFrom(d) ==
    IF TreeGetNode(dir_tree, d) = None THEN NoPath
    ELSE IF Loops(d, {}) THEN Diverges
    ELSE SomePath(Reverse(WalkUp(d)))

\* Storage::get_object_path: every result the call can give
GetObjectPath(id) ==
    IF FindFileDir(id) = {} THEN {NoPath}
    ELSE {PathFrom(d) : d \in FindFileDir(id)}

\* Storage::dir_objects: the (name, node) pairs of a directory
DirObjects(dir_id) ==
    IF dir_id \in DOMAIN objects /\ objects[dir_id].data.type = "Dir"
    THEN Some({<<n, objects[objects[dir_id].data.entries[n]]>> :
                 n \in DOMAIN objects[dir_id].data.entries})
    ELSE None

\* Storage::with_root
InitStorage ==
    /\ NewApplication
    /\ fs = InitialFs
    /\ variant = "core"
    /\ NoCalls

NextStorage ==
    \/ \E parent_dir_id \in ObjectIds : StAddDir(parent_dir_id)
    \/ StAddObject
    \/ \E dir_id \in ObjectIds, id \in ObjectIds, name \in EntryNames, overflow_checks \in BOOLEAN :
          StAddEntry(dir_id, id, name, overflow_checks)
    \/ \E id \in ObjectIds : StDelete(id)
    \/ \E id \in ObjectIds : StRestore(id)

SpecStorage == InitStorage /\ [][NextStorage]_vars

\* ---------------------------------------------------------------- the tick of the egui application
\* enum Command; Unimplemented stands for CreateNote, DeleteNote, DeleteDir,
\* CreateNoteThenSelect and CreateSubDir, whose arm in handle_command is todo!()
Cmd(cmd, key) == [cmd |-> cmd, key |-> key]

\* what the user does in the explorer during one frame: nothing, a click on
\* the scratch pad label or on a note label, an entry of a context menu
ExplorerClicks ==
    {<<>>, <<Cmd("ReadAndSelectNote", ScratchPad)>>, <<Cmd("Unimplemented", NoKey)>>}
    \cup {<<Cmd("ReadAndSelectNote", k)>> : k \in {k \in Keys : CellHasValue(dirs)}}

\* the commands of a changed TextEdit, queued the other way round
EditCommands_SaveFirst(k) == <<Cmd("SaveNote", k), Cmd("MarkChanged", k)>>

\* note_content_ui: what .changed() of the TextEdit queues
EditCommands(k) == <<Cmd("MarkChanged", k), Cmd("SaveNote", k)>>

\* NotesApp::update starts with poll_background_tasks
TickPoll ==
    /\ phase = "drain"
    /\ command_queue = <<>>
    /\ PollEguiTasks
    /\ phase' = "explorer"
    /\ UNCHANGED <<calls, command_queue, current_note_path>>

\* explorer_ui: the click of this frame, then ReadDir of the base directory
\* as long as base_dir() is None
ExplorerUi ==
    /\ phase = "explorer"
    /\ ~panicked
    /\ \E click \in ExplorerClicks :
          command_queue' = command_queue \o click \o
              (IF CellHasValue(dirs) THEN <<>> ELSE <<Cmd("ReadDir", DirKey)>>)
    /\ phase' = "content"
    /\ lastOp' = Step
    /\ UNCHANGED <<notes, dirs, bg_notes, bg_dirs, error_msg, queue, pc, cur, fs,
                   panicked, variant, saves, failures, dirtied_after_save,
                   calls, current_note_path>>

\* note_content_ui: the editor writes the typed text into the cached note and
\* queues the commands of the edit; "Loading..." for a pending read; a
\* ReadAndSelectNote for a path with no cell
NoteContentUiStep ==
    /\ phase = "content"
    /\ ~panicked
    /\ LET k == current_note_path IN
       IF notes[k] = Absent
       THEN /\ command_queue' = Append(command_queue, Cmd("ReadAndSelectNote", k))
            /\ UNCHANGED notes
       ELSE IF CellHasValue(notes[k])
       THEN \/ UNCHANGED <<notes, command_queue>>
            \/ /\ saves < MaxSaves
               /\ \E t \in Texts \ {notes[k].text} :
                     notes' = [notes EXCEPT ![k].text = t]
               /\ command_queue' = command_queue \o EditCommands(k)
       ELSE UNCHANGED <<notes, command_queue>>
    /\ phase' = "drain"
    /\ lastOp' = Step
    /\ UNCHANGED <<dirs, bg_notes, bg_dirs, error_msg, queue, pc, cur, fs,
                   panicked, variant, saves, failures, dirtied_after_save,
                   calls, current_note_path>>

\* an arm of handle_command that calls nothing: the application stays as it is
NoCommandEffect(c) ==
    /\ lastOp' = Op("command_skipped", c.key)
    /\ UNCHANGED <<notes, dirs, bg_notes, bg_dirs, error_msg, queue, pc, cur, fs,
                   panicked, variant, saves, failures, dirtied_after_save>>

\* handle_command(app, command)
HandleCommand(c) ==
    \/ /\ c.cmd = "ReadAndSelectNote"
       /\ ReadNoteInBackground(c.key)
       /\ current_note_path' = c.key
    \/ /\ c.cmd = "ReadDir"
       /\ IF ~DirInMemory THEN ReadDirInBackground ELSE NoCommandEffect(c)
       /\ UNCHANGED current_note_path
    \/ /\ c.cmd = "MarkChanged"
       /\ MarkDirty(c.key)
       /\ UNCHANGED current_note_path
    \/ /\ c.cmd = "SaveNote"
       /\ IF NoteIsDirty(c.key) THEN SaveNoteInBackground(c.key) ELSE NoCommandEffect(c)
       /\ UNCHANGED current_note_path
    \/ /\ c.cmd = "Unimplemented"
       /\ panicked' = TRUE
       /\ lastOp' = Op("command_panic", c.key)
       /\ UNCHANGED <<notes, dirs, bg_notes, bg_dirs, error_msg, queue, pc, cur, fs,
                      variant, saves, failures, dirtied_after_save, current_note_path>>

\* while let Some(command) = self.command_queue.pop_front() { handle_command(..) }
DrainCommand ==
    /\ phase = "drain"
    /\ ~panicked
    /\ command_queue # <<>>
    /\ command_queue' = Tail(command_queue)
    /\ HandleCommand(Head(command_queue))
    /\ UNCHANGED <<calls, phase>>

InitTick == Init /\ variant = "egui"

NextTick ==
    \/ TickPoll
    \/ ExplorerUi
    \/ NoteContentUiStep
    \/ DrainCommand
    \/ \E w \in Workers : WorkerLock(w)
    \/ \E w \in Workers : WorkerRecv(w)
    \/ \E w \in Workers : WorkerExec(w)
    \/ \E w \in Workers : WorkerPanic(w)

SpecTick == InitTick /\ [][NextTick]_vars

\* ---------------------------------------------------------------- the cell as the consumer sees it
\* io::ErrorKind of the errors a read or a write can end with
IoErrors == {"NotFound", "PermissionDenied"}

\* enum MemoryCell<T> of src/egui_app/src/src/app.rs, T = DataNode<Note>
PendingReadCell == [tag |-> "PendingRead", text |-> 0, dirty |-> FALSE, err |-> "none"]
ReadError(e) == [tag |-> "ReadError", text |-> 0, dirty |-> FALSE, err |-> e]
ValueWriteError(t, d, e) == [tag |-> "ValueWriteError", text |-> t, dirty |-> d, err |-> e]
ValueCell(t, d) == [tag |-> "Value", text |-> t, dirty |-> d, err |-> "none"]

MemoryCells ==
    {PendingReadCell}
    \cup {ReadError(e) : e \in IoErrors}
    \cup {ValueWriteError(t, d, e) : t \in Texts, d \in BOOLEAN, e \in IoErrors}
    \cup {ValueCell(t, d) : t \in Texts, d \in BOOLEAN}

\* a state_of_cell that would tell a failed cell from a pending one
StateOfCell_ErrorsShown(cell) ==
    IF cell.tag = "PendingRead" THEN "PendingRead"
    ELSE IF cell.tag = "Value" THEN "Ready"
    ELSE "Error"

\* MemoryCellState::state_of_cell
StateOfCell(cell) ==
    IF cell.tag \in {"PendingRead", "ReadError", "ValueWriteError"} THEN "PendingRead"
    ELSE "Ready"

\* MemoryCell::value(cell).is_some()
CellValueIsSome(cell) == cell.tag \in {"Value", "ValueWriteError"}

\* note_state
NoteStateOf(k) == IF cells[k] = NoCell THEN None ELSE Some(StateOfCell(cells[k]))

\* note_is_pending
NoteIsPendingOf(k) == cells[k] = NoCell \/ ~CellValueIsSome(cells[k])

\* what note_content_ui does with note_state
NoteContentUi(state) ==
    IF state = None THEN "ReadAndSelectNote"
    ELSE IF state = Some("Ready") THEN "TextEdit"
    ELSE IF state = Some("PendingRead") THEN "Loading..."
    ELSE "todo!"

\* the consumer asks for the state of the note at path k and draws it
NoteState(k) ==
    /\ state_call' = [key |-> k, state |-> NoteStateOf(k), pending |-> NoteIsPendingOf(k),
                      ui |-> NoteContentUi(NoteStateOf(k))]
    /\ UNCHANGED <<bridge, files_vars, names_vars, storage_vars, ids_vars, pool_vars, cells,
                   tick_vars>>

InitCells ==
    /\ NewApplication
    /\ fs = InitialFs
    /\ variant = "egui"
    /\ NoFunctionCalls
    /\ cells \in [Keys -> MemoryCells \cup {NoCell}]

NextCells == \E k \in Keys : NoteState(k)

SpecCells == InitCells /\ [][NextCells]_vars

\* ---------------------------------------------------------------- properties
RECURSIVE SeqCount(_, _, _)
SeqCount(s, kind, key) ==
    IF s = <<>> THEN 0
    ELSE (IF Head(s).kind = kind /\ Head(s).key = key THEN 1 ELSE 0)
         + SeqCount(Tail(s), kind, key)

RunningCount(kind, key) ==
    Cardinality({w \in Workers : pc[w] = "exec" /\ cur[w].kind = kind /\ cur[w].key = key})

\* jobs of `kind` for `key` submitted whose result poll has not applied yet
Outstanding(kind, key) ==
    SeqCount(queue, kind, key) + RunningCount(kind, key)
    + (IF key = DirKey THEN SeqCount(bg_dirs.buf, kind, key)
       ELSE SeqCount(bg_notes[key].buf, kind, key))

\* get_note
NoValue == [tag |-> "None", text |-> 0, dirty |-> FALSE]
GetNote(k) == IF CellHasValue(notes[k]) THEN notes[k] ELSE NoValue

\* the results this step took from k's pipe (only a poll takes any)
Consumed(k) ==
    IF Len(bg_notes'[k].buf) < Len(bg_notes[k].buf)
    THEN SubSeq(bg_notes[k].buf, 1, Len(bg_notes[k].buf) - Len(bg_notes'[k].buf))
    ELSE <<>>

HasMsg(buf, kind, ok) == \E i \in 1..Len(buf) : buf[i].kind = kind /\ buf[i].ok = ok
HasOk(buf) == \E i \in 1..Len(buf) : buf[i].ok

\* this step put a job of `kind` for k on the executor queue
Submitted(kind, k) == SeqCount(queue', kind, k) > SeqCount(queue, kind, k)

\* C1: however often read_note_in_background(k) is called before the first
\* load has been applied, at most one load job for k is outstanding, and a
\* call that finds a cell for k submits nothing and leaves the cache, the
\* pipes and the queue as they were.
C1_ReadIsIdempotent ==
    [][\A k \in Keys :
          /\ Outstanding("load", k)' <= 1
          /\ (lastOp'.op = "read_hit" /\ lastOp'.key = k)
                => /\ NoteInMemory(k)
                   /\ UNCHANGED <<notes, dirs, bg_notes, bg_dirs, queue, error_msg>>]_vars

C1_Witness ==
    \E k \in Keys :
        /\ lastOp = Op("read_hit", k)
        /\ notes[k] = PendingRead
        /\ Outstanding("load", k) = 1

\* C2: every key with an outstanding job (queued, running, or result not yet
\* polled) has a cell in its cache; right after a read of an absent key the
\* cell is PendingRead.
C2_OutstandingHasCell ==
    /\ \A k \in Keys :
          /\ Outstanding("load", k) + Outstanding("save", k) > 0 => notes[k] # Absent
          /\ SeqCount(queue, "load", k) > 0 => notes[k] = PendingRead
    /\ Outstanding("loaddir", DirKey) > 0 => dirs # Absent

C2_Witness ==
    /\ \E k \in Keys : SeqCount(queue, "load", k) = 1 /\ notes[k] = PendingRead
    /\ SeqCount(queue, "loaddir", DirKey) = 1 /\ dirs = PendingRead

\* C3: a poll that takes a successful load result for k from the pipe leaves
\* k's cell Value holding the loaded text with dirty = false, and get_note(k)
\* returns it.
C3_LoadedValueVisible ==
    [][\A k \in Keys : \A i \in 1..Len(Consumed(k)) :
          (Consumed(k)[i].kind = "load" /\ Consumed(k)[i].ok)
             => /\ notes'[k] = Value(Consumed(k)[i].text, FALSE)
                /\ GetNote(k)' = notes'[k]]_vars

C3_Witness ==
    \E k \in Keys :
        /\ lastOp.op = "poll"
        /\ HasMsg(lastOp.drained[k], "load", TRUE)
        /\ GetNote(k) = Value(MaxText, FALSE)

\* C4 (as claimed): a poll that takes a failed load result for k moves k's
\* cell out of PendingRead into a read-error variant.
C4_FailedLoadLeavesPending ==
    [][\A k \in Keys :
          HasMsg(Consumed(k), "load", FALSE) => notes'[k].tag # "PendingRead"]_vars

\* C5 (as claimed): when set_dirty(k) was called after the latest save of k was
\* submitted, a poll that applies a successful save result for k leaves the
\* dirty flag of k true.
C5_DirtyAfterSubmitKept ==
    [][\A k \in Keys :
          (HasMsg(Consumed(k), "save", TRUE) /\ dirtied_after_save[k])
             => NoteIsDirty(k)']_vars

\* C6 (as claimed): a poll that applies a successful save result for k never
\* replaces the in-memory text of k: edits made after the save was submitted
\* are still there.
C6_EditsSurviveSaveCompletion ==
    [][\A k \in Keys :
          HasMsg(Consumed(k), "save", TRUE) => notes'[k].text = notes[k].text]_vars

\* C7 (as claimed): at most one save job per key is outstanding at any time.
C7_OneOutstandingSave == \A k \in Keys : Outstanding("save", k) <= 1

\* C8 (as claimed): a poll that takes a failed save result for k (and no
\* successful result for k with it) returns with k's cell exactly as it was:
\* the value can still be read through get_note(k) and a dirty flag that was
\* set is still set, so the save can be retried.
C8_FailedSaveKeepsValue ==
    [][\A k \in Keys :
          (HasMsg(Consumed(k), "save", FALSE) /\ ~HasOk(Consumed(k)))
             => /\ notes'[k] = notes[k]
                /\ GetNote(k)' = notes[k]
                /\ ~panicked']_vars

\* C9: save_note_in_background(k) puts a save job on the queue only when k's
\* cell is Value; called for a key without a value it submits nothing (the
\* unwrap panics).
C9_SaveOnlyOfValue ==
    [][\A k \in Keys :
          /\ Submitted("save", k) => notes[k].tag = "Value"
          /\ (lastOp'.op = "save_panic" /\ lastOp'.key = k /\ ~panicked)
                => notes[k].tag # "Value" /\ queue' = queue]_vars

C9_Witness ==
    /\ lastOp.op = "save_panic"
    /\ \E k \in Keys : SeqCount(queue, "save", k) = 1 /\ notes[k].tag = "Value"

\* C10: the dirty flag of k goes from true to false only in a poll step that
\* applies a successful save result for k.
C10_DirtyClearedOnlyBySave ==
    [][\A k \in Keys :
          (NoteIsDirty(k) /\ ~NoteIsDirty(k)') => HasMsg(Consumed(k), "save", TRUE)]_vars

C10_Witness ==
    \E k \in Keys :
        /\ lastOp.op = "poll"
        /\ HasMsg(lastOp.drained[k], "save", TRUE)
        /\ dirtied_after_save[k]
        /\ CellHasValue(notes[k])
        /\ ~NoteIsDirty(k)

JobKinds == {"load", "save"}

\* jobs of `kind` for `key` submitted and not yet finished by a worker
InFlight(kind, key) == SeqCount(queue, kind, key) + RunningCount(kind, key)

\* all jobs submitted and not yet finished by a worker
Unfinished == Len(queue) + Cardinality({w \in Workers : pc[w] = "exec"})

\* this step ended a job of `kind` for a note path k and sent its one result
NoteJobReported(kind, k) ==
    /\ InFlight(kind, k)' = InFlight(kind, k) - 1
    /\ \A j \in JobKinds \ {kind} : InFlight(j, k)' = InFlight(j, k)
    /\ Len(bg_notes'[k].buf) = Len(bg_notes[k].buf) + 1
    /\ bg_notes'[k].buf[Len(bg_notes'[k].buf)].kind = kind
    /\ bg_notes'[k].buf[Len(bg_notes'[k].buf)].key = k
    /\ SubSeq(bg_notes'[k].buf, 1, Len(bg_notes[k].buf)) = bg_notes[k].buf

\* this step ended the load_dir job and sent its one result
DirJobReported ==
    /\ InFlight("loaddir", DirKey)' = InFlight("loaddir", DirKey) - 1
    /\ Len(bg_dirs'.buf) = Len(bg_dirs.buf) + 1
    /\ bg_dirs'.buf[Len(bg_dirs'.buf)].kind = "loaddir"
    /\ SubSeq(bg_dirs'.buf, 1, Len(bg_dirs.buf)) = bg_dirs.buf

\* one job ends per message, one message is sent per ending job
OneResultPerJob ==
    /\ \A k \in Keys :
          /\ \A kind \in JobKinds :
                InFlight(kind, k)' < InFlight(kind, k) => NoteJobReported(kind, k)
          /\ Len(bg_notes'[k].buf) > Len(bg_notes[k].buf)
                => \E kind \in JobKinds : InFlight(kind, k)' < InFlight(kind, k)
    /\ InFlight("loaddir", DirKey)' < InFlight("loaddir", DirKey) => DirJobReported
    /\ Len(bg_dirs'.buf) > Len(bg_dirs.buf)
          => InFlight("loaddir", DirKey)' < InFlight("loaddir", DirKey)

MaxJobs == MaxSaves + Cardinality(Keys) + 1

\* C11: with the workers scheduled fairly the number of unfinished jobs
\* always falls again, down to none (the queue is FIFO, so every submitted job
\* is finished by a worker); and the step that finishes a job of some kind for
\* a key is the one that sends one result of that kind on the key's pipe: one
\* job ends per message, one message is sent per ending job, no other step
\* sends.
C11_EveryJobReportsOnce ==
    /\ [][OneResultPerJob]_vars
    /\ \A n \in 1..MaxJobs : (Unfinished = n) ~> (Unfinished < n)

\* the same for the runs in which no job panics
C11_EveryJobReportsOnceUnlessPanic ==
    /\ [][Poisoned' \/ OneResultPerJob]_vars
    /\ \A n \in 1..MaxJobs : (Unfinished = n) ~> (Unfinished < n \/ Poisoned)

C11_Witness ==
    \E k \in Keys :
        /\ saves = MaxSaves
        /\ queue = <<>>
        /\ \A w \in Workers : pc[w] # "exec"
        /\ SeqCount(bg_notes[k].buf, "save", k) = MaxSaves
        /\ HasMsg(bg_notes[k].buf, "save", FALSE)

\* C12: a load_note of k that succeeds after a save_note of text P to k
\* succeeded, with no later save_note of k in between, returns a note whose
\* text is P (and which is not dirty).
C12_SaveLoadRoundTrip ==
    \A k \in Keys :
        (last_call.op = "load" /\ last_call.key = k /\ last_call.result.ok
            /\ written[k] # {})
           => /\ written[k] = {last_call.result.text}
              /\ ~last_call.result.dirty

C12_Witness ==
    \E k \in Keys :
        /\ last_call.op = "load" /\ last_call.key = k /\ last_call.result.ok
        /\ written[k] = {MaxText}
        /\ last_call.result.text = MaxText

\* the results this step took from the directory pipe
ConsumedDirs ==
    IF Len(bg_dirs'.buf) < Len(bg_dirs.buf)
    THEN SubSeq(bg_dirs.buf, 1, Len(bg_dirs.buf) - Len(bg_dirs'.buf))
    ELSE <<>>

\* the messages of `errs` that come from jobs for `key`
ErrorsOf(errs, key) == SelectSeq(errs, LAMBDA e : e.key = key)

\* what this step appended to error_msg
Appended == SubSeq(error_msg', Len(error_msg) + 1, Len(error_msg'))

RECURSIVE SumLen(_)
SumLen(ks) ==
    IF ks = {} THEN 0
    ELSE LET k == CHOOSE x \in ks : TRUE
         IN Len(Errors(Consumed(k))) + SumLen(ks \ {k})

\* C13: a poll keeps what is buffered and appends one message per failed
\* result it takes from the pipes, those of one pipe in the order they were
\* sent; pop_errors returns the whole buffer in order and leaves it empty; no
\* other step takes a result from a pipe or touches the buffer.
C13_ErrorsBufferedOnce ==
    [][CASE lastOp'.op = "pop_errors" ->
              lastOp'.ret = error_msg /\ error_msg' = <<>>
         [] lastOp'.op = "poll" ->
              /\ Len(error_msg') >= Len(error_msg)
              /\ SubSeq(error_msg', 1, Len(error_msg)) = error_msg
              /\ Len(Appended) = Len(Errors(ConsumedDirs)) + SumLen(Keys)
              /\ ErrorsOf(Appended, DirKey) = Errors(ConsumedDirs)
              /\ \A k \in Keys : ErrorsOf(Appended, k) = Errors(Consumed(k))
         [] OTHER ->
              /\ error_msg' = error_msg
              /\ Len(bg_dirs'.buf) >= Len(bg_dirs.buf)
              /\ \A k \in Keys : Len(bg_notes'[k].buf) >= Len(bg_notes[k].buf)]_vars

C13_Witness ==
    /\ lastOp.op = "pop_errors"
    /\ Len(lastOp.ret) = MaxFailures
    /\ \E i, j \in 1..Len(lastOp.ret) :
          i < j /\ lastOp.ret[i].kind = "load" /\ lastOp.ret[j].kind = "save"
    /\ error_msg = <<>>

\* C14 (as claimed): a poll that takes a failed result from a pipe returns
\* normally: the consumer thread has not panicked after it.
C14_PollSurvivesFailure ==
    [][(\E k \in Keys : HasMsg(Consumed(k), "load", FALSE) \/ HasMsg(Consumed(k), "save", FALSE))
          => ~panicked']_vars

\* a call of add_entry_with_unique_name returned in this step
NameReturned == name_call' # name_call /\ name_call'.outcome = "ok"

\* C15 (as claimed): the name returned for a candidate is none of the names
\* the directory holds when it is called.
C15_ReturnedNameIsNew ==
    [][NameReturned => name_call'.name \notin DOMAIN entries]_vars

\* C16 (as claimed): a candidate that is no entry name of the directory is
\* returned unchanged, whatever other entries there are.
C16_UnusedCandidateKept ==
    [][(NameReturned /\ name_call'.candidate \notin DOMAIN entries)
          => name_call'.name = name_call'.candidate]_vars

\* the numbers n for which the directory holds "candidate #n"
UsedSuffixes(candidate) ==
    {n \in 1..(Cardinality(DOMAIN entries) + 1) : WithCount(candidate, n) \in DOMAIN entries}

\* C17 (as claimed): for a candidate that is an entry name the returned name
\* is "candidate #n" with n the smallest number from 1 on that no entry
\* "candidate #n" uses; adding "a" twice to an empty directory gives "a" and
\* "a #1".
C17_SmallestFreeSuffix ==
    [][(NameReturned /\ name_call'.candidate \in DOMAIN entries)
          => \E n \in 1..(Cardinality(DOMAIN entries) + 1) :
                /\ n \notin UsedSuffixes(name_call'.candidate)
                /\ \A m \in 1..(n - 1) : m \in UsedSuffixes(name_call'.candidate)
                /\ name_call'.name = WithCount(name_call'.candidate, n)]_vars

\* the elements of a sequence
Elems(seq) == {seq[i] : i \in 1..Len(seq)}

\* the directories of the tree that list id among their children
TreeParents(id) == {p \in DOMAIN dir_tree.nodes : id \in Elems(dir_tree.nodes[p].children)}

\* this step was the operation `op` on node id
StStep(op, id) == st_op' # st_op /\ st_op'.op = op /\ st_op'.id = id

\* C18: after delete on a sub-directory its parent's get_sub_directories does
\* not list it, after restore it lists it, and after either get_object(id)
\* still returns the node with that id.
C18_SoftDelete ==
    [][\A id \in ObjectIds :
          /\ StStep("delete", id)
                => /\ \A p \in TreeParents(id) : \A subs \in GetSubDirectories(p)' : id \notin Elems(subs)
                   /\ \E n \in GetObject(id)' : n.id = id
          /\ StStep("restore", id)
                => /\ \A p \in TreeParents(id) :
                        GetSubDirectories(p)' # None
                        /\ \A subs \in GetSubDirectories(p)' : id \in Elems(subs)
                   /\ \E n \in GetObject(id)' : n.id = id]_vars

C18_Witness ==
    /\ st_op.op = "restore"
    /\ st_op.was # None
    /\ TreeParents(st_op.id) # {}
    /\ \A p \in TreeParents(st_op.id) : \E subs \in GetSubDirectories(p) : st_op.id \in Elems(subs)

\* C19: a delete or restore step leaves the directory tree, the keys of the
\* object map, every node's id and data (a directory's entries, a file's
\* payload) and every other node as they were: only deletion_time of the node
\* changes.
C19_DeleteRestoreFrame ==
    [][\A id \in ObjectIds :
          (StStep("delete", id) \/ StStep("restore", id))
             => /\ dir_tree' = dir_tree
                /\ DOMAIN objects' = DOMAIN objects
                /\ \A i \in DOMAIN objects :
                      /\ objects'[i].id = objects[i].id
                      /\ objects'[i].data = objects[i].data
                      /\ i # id => objects'[i] = objects[i]
                /\ \A d \in DOMAIN objects :
                      DirObjects(d) # None
                         => {e[1] : e \in CHOOSE x \in DirObjects(d)' : TRUE}
                            = {e[1] : e \in CHOOSE x \in DirObjects(d) : TRUE}]_vars

C19_Witness ==
    /\ st_op.op = "delete"
    /\ st_op.was = None
    /\ IsDeleted(objects[st_op.id])
    /\ objects[st_op.id].data.entries # <<>>
    /\ TreeParents(st_op.id) # {}
    /\ FindFileDir(st_op.id) # {}

\* a path of directory nodes from the root to d, each the parent of the next
IsRootPath(path, d) ==
    /\ path # <<>>
    /\ path[1].dir_obj_id = dir_tree.root
    /\ path[Len(path)].dir_obj_id = d
    /\ \A i \in 1..(Len(path) - 1) :
          dir_tree.nodes[path[i + 1].dir_obj_id].parent = Some(path[i].dir_obj_id)

\* C20 (as claimed): for an id bound in the entries of directory d every
\* result of get_object_path(id) is the path of directory nodes from the root
\* to d; for an id bound in no entries the result is None.
C20_ObjectPath ==
    \A id \in ObjectIds :
        /\ \A d \in FindFileDir(id) :
              \A r \in GetObjectPath(id) : r.tag = "Some" /\ IsRootPath(r.path, d)
        /\ FindFileDir(id) = {} => GetObjectPath(id) = {NoPath}

\* the same for the stores in which no id is bound in two directories and
\* no id was given to two nodes
C20_ObjectPathWhenBoundOnce ==
    (\A id \in ObjectIds : Cardinality(FindFileDir(id)) <= 1)
        /\ TreeEdges(dir_tree) = Cardinality(DOMAIN dir_tree.nodes) - 1
        /\ (\A c \in DOMAIN dir_tree.nodes : ~Loops(c, {}))
        /\ (\A d \in DOMAIN dir_tree.nodes : objects[d].data.type = "Dir")
    => C20_ObjectPath

\* this step was add_dir(p, dir), returning or panicking
AddDirStep(p) ==
    /\ objects' # objects \/ dir_tree' # dir_tree \/ st_op' # st_op
    /\ st_op'.op \in {"add_dir", "add_dir_panic"}
    /\ st_op'.parent = Some(p)

\* id resolves through get_object to a directory node of that id
ResolvesToDir(id) ==
    \E n \in GetObject(id) : n.id = id /\ n.data.type = "Dir"

\* C21: add_dir(p, dir) fails when p is absent from the store or names a leaf
\* object; when p is an existing directory it returns an id that was not in
\* use, is a tree child of p and resolves through get_object to the directory.
C21_AddDir ==
    [][\A p \in ObjectIds :
          AddDirStep(p)
             => IF ResolvesToDir(p)
                THEN /\ st_op'.op = "add_dir"
                     /\ \E id \in ObjectIds \ DOMAIN objects :
                           /\ id = st_op'.id
                           /\ \E ch \in TreeGetChildren(dir_tree, p)' : id \in Elems(ch)
                           /\ ResolvesToDir(id)'
                ELSE st_op'.op = "add_dir_panic"]_vars

\* C22: in the directory tree every key except the root has exactly one
\* parent (the root has none), the parent of c lists c among its children,
\* and following the parents from any key ends: a rooted tree without cycles.
C22_TreeInvariant ==
    \A c \in DOMAIN dir_tree.nodes :
        /\ (c = dir_tree.root) <=> (GetDirParentId(c) = None)
        /\ \A p \in GetDirParentId(c) :
              /\ p \in DOMAIN dir_tree.nodes
              /\ c \in Elems(dir_tree.nodes[p].children)
        /\ TreeParents(c) = GetDirParentId(c)
        /\ ~Loops(c, {})

\* C23: any two identifiers produced during one run are distinct, also when
\* they come from separately constructed generators in the same millisecond.
C23_IdsDistinct ==
    \A i \in 1..Len(ids), j \in 1..Len(ids) : i # j => ids[i] # ids[j]

\* worker w takes a job from the queue in this step
Dequeues(w) == pc[w] = "recv" /\ pc'[w] = "exec"

\* C24: the queue is first in, first out: execute puts the job behind all
\* jobs waiting, and a worker that dequeues takes the job that has waited
\* longest, so of two jobs submitted one after the other the first is
\* dequeued first.
C24_DequeuedInSubmissionOrder ==
    [][/\ queue' # queue
          => \/ /\ Len(queue') = Len(queue) + 1
                /\ SubSeq(queue', 1, Len(queue)) = queue
                /\ \A w \in Workers : ~Dequeues(w)
             \/ /\ queue # <<>>
                /\ queue' = Tail(queue)
                /\ \E w \in Workers : Dequeues(w)
       /\ \A w \in Workers :
             Dequeues(w) => /\ queue # <<>>
                            /\ cur'[w] = Head(queue)
                            /\ queue' = Tail(queue)]_vars

\* a job runs while another kind of job, submitted after it, waits
C24_Witness ==
    \E w \in Workers :
        /\ pc[w] = "exec"
        /\ Len(queue) = 2
        /\ cur[w].kind = "load"
        /\ queue[1].kind = "loaddir"
        /\ queue[2].kind = "save"

\* the number of results sent and not yet taken by a poll
RECURSIVE Buffered(_)
Buffered(ks) ==
    IF ks = {} THEN 0
    ELSE LET k == CHOOSE x \in ks : TRUE
         IN Len(bg_notes[k].buf) + Buffered(ks \ {k})

Sent == Len(bg_dirs.buf) + Buffered(Keys)

\* C25: once the executor is dropped every job that was enqueued is executed
\* before the workers exit: when all worker threads have ended the queue is
\* empty, and a job that a worker has started is run to its end, to the
\* sending of its one result, by that worker.
C25_DropRunsEveryJob ==
    /\ []((\A w \in Workers : Ended(w)) => queue = <<>>)
    /\ [][\A w \in Workers :
            (pc[w] = "exec" /\ pc'[w] # "exec")
               => /\ pc'[w] = "idle"
                  /\ Sent' = Sent + 1]_vars

\* the same for the runs in which no job panics
C25_DropRunsEveryJobUnlessPanic ==
    /\ [](((\A w \in Workers : Ended(w)) /\ ~Poisoned) => queue = <<>>)
    /\ [][\A w \in Workers :
            (pc[w] = "exec" /\ pc'[w] \notin {"exec", "dead"})
               => /\ pc'[w] = "idle"
                  /\ Sent' = Sent + 1]_vars

\* C26: every job terminates in the model, so a drop that has begun returns,
\* and when it has returned every worker thread has left exec_loop.
C26_DropReturns ==
    /\ (dropping = "joining") ~> (dropping = "returned")
    /\ [](dropping = "returned" => \A w \in Workers : pc[w] = "exited")

\* the same for the runs in which no job panics
C26_DropReturnsUnlessPanic ==
    /\ (dropping = "joining") ~> (dropping = "returned" \/ Poisoned)
    /\ [](dropping = "returned" => \A w \in Workers : pc[w] = "exited")

NothingLanded == bg_dirs.buf = <<>> /\ \A k \in Keys : bg_notes[k].buf = <<>>

\* C28: poll never waits for a worker: while the application is running it is
\* enabled in every state, whatever the workers are doing, and a poll that finds
\* no landed result leaves every cache cell, every dirty flag and the error
\* buffer unchanged
C28_PollNeverWaits ==
    /\ [](~panicked => ENABLED PollCore)
    /\ [][(PollCore /\ NothingLanded) => UNCHANGED <<notes, dirs, error_msg>>]_vars

\* a poll that found nothing has returned while a worker runs a job and a note is dirty
C28_Witness ==
    /\ lastOp.op = "poll"
    /\ lastOp.drained = NoDrain
    /\ NothingLanded
    /\ \E w \in Workers : pc[w] = "exec"
    /\ \E k \in Keys : CellHasValue(notes[k]) /\ notes[k].dirty

\* what a set_dirty(k) may change: the dirty flag of the value cached for k
SetDirtyFrame(k) ==
    /\ UNCHANGED <<dirs, bg_notes, bg_dirs, error_msg, queue, pc, cur, fs, panicked>>
    /\ \A j \in Keys \ {k} : notes'[j] = notes[j]
    /\ IF CellHasValue(notes[k])
       THEN notes'[k] = [notes[k] EXCEPT !.dirty = TRUE]
       ELSE notes'[k] = notes[k]

\* C29: set_dirty(k) submits no job and changes nothing except the dirty flag of
\* the value cached for k; when k has no cached value (absent or PendingRead)
\* it changes nothing at all and creates no cell
C29_SetDirtyFrame ==
    [][\A k \in Keys : SetDirty(k) => SetDirtyFrame(k)]_vars

\* set_dirty has just been called for a key whose read is pending, after it
\* had marked the value of the other key dirty, with a job waiting in the queue
C29_Witness ==
    /\ lastOp.op = "set_dirty_miss"
    /\ notes[lastOp.key] = PendingRead
    /\ \E j \in Keys \ {lastOp.key} :
          CellHasValue(notes[j]) /\ notes[j].dirty /\ dirtied_after_save[j]
    /\ queue # <<>>

\* the pipe of a note path or of the directory still has work to wait for: a job
\* queued or running, or a result that poll has not taken yet
HasOutstandingWork(key) ==
    \E kind \in JobKinds \cup {"loaddir"} : Outstanding(kind, key) > 0

\* C30: after poll has applied the result of the last outstanding job for key k,
\* the channel bookkeeping entry for k is removed: when a poll has returned, the
\* bookkeeping map holds entries only for keys that still have outstanding work
C30_BookkeepingRemoved ==
    lastOp.op = "poll" =>
        /\ \A k \in Keys : bg_notes[k].open => HasOutstandingWork(k)
        /\ bg_dirs.open => HasOutstandingWork(DirKey)

C32_PanicKeepsPool ==
    \A n \in 1..MaxJobs : (Poisoned /\ Len(queue) = n) ~> (Len(queue) < n)

\* the entries, over all directories of the store, that bind id
Bindings(id) == {e \in AllEntries : objects[e[1]].data.entries[e[2]] = id}

\* C33: after any sequence of add_dir, add_object and add_entry_with_unique_name
\* calls no object id is bound by more than one entry across all directories
\* (at most one name, in at most one directory), so find_file_dir(id) has at
\* most one candidate
C33_BoundAtMostOnce ==
    \A id \in ObjectIds :
        /\ Cardinality(Bindings(id)) <= 1
        /\ Cardinality(FindFileDir(id)) <= 1

\* the workers between lock() and the return of their job: they hold the guard
HoldingGuard == {w \in Workers : pc[w] \in {"recv", "exec"}}

\* C34: at most one job is executing at any moment across all workers: a worker
\* holds the lock on the shared queue from the dequeue until its job has
\* returned, so a job is dequeued only when no job is running, and it is the
\* oldest one waiting: jobs run one at a time, in submission order
C34_OneJobAtATime ==
    /\ [](Cardinality(HoldingGuard) <= 1)
    /\ [][\A w \in Workers : Dequeues(w) =>
            /\ \A v \in Workers : pc[v] # "exec"
            /\ cur'[w] = Head(queue)]_vars

\* a worker runs a job while the other worker is idle with a job waiting
C34_Witness ==
    /\ \E w \in Workers : pc[w] = "exec"
    /\ \E v \in Workers : pc[v] = "idle"
    /\ queue # <<>>

\* this step submitted a job of `kind` for `key`
Submits(kind, key) == SeqCount(queue', kind, key) > SeqCount(queue, kind, key)

\* C35: over the whole lifetime of the application at most one load job is
\* ever submitted per key in each cache: a load is submitted only for a key
\* with no cell, a cell once made never goes away, so no second load follows;
\* no load is outstanding for a key whose cell holds a value, so a Value cell
\* is never replaced by the result of a later load
C35_OneLoadPerKey ==
    /\ [][/\ \A k \in Keys : /\ Submits("load", k) => notes[k] = Absent
                             /\ notes[k] # Absent => notes'[k] # Absent
          /\ Submits("loaddir", DirKey) => dirs = Absent
          /\ dirs # Absent => dirs' # Absent]_vars
    /\ [](/\ \A k \in Keys : /\ Outstanding("load", k) <= 1
                             /\ notes[k].tag # "PendingRead" => Outstanding("load", k) = 0
          /\ Outstanding("loaddir", DirKey) <= 1
          /\ dirs.tag # "PendingRead" => Outstanding("loaddir", DirKey) = 0)

\* a second read of a key whose value is cached, and of the directory, has
\* returned without submitting
C35_Witness ==
    /\ \E k \in Keys : lastOp = Op("read_hit", k) /\ CellHasValue(notes[k])
    /\ CellHasValue(dirs)
    /\ queue = <<>>

\* the load results among the results a poll took from the pipe of k
LoadsDrained(k) ==
    {i \in 1..Len(lastOp.drained[k]) : lastOp.drained[k][i].kind = "load"}

\* C36: a load job and a save job for the same key are never outstanding at
\* the same time (queued, running or with a result waiting in the pipe), and a
\* poll applies a load result only to a cell that was PendingRead, so a load
\* result never overwrites a value that has been edited or saved
C36_LoadAndSaveNeverOverlap ==
    /\ [](\A k \in Keys : Outstanding("load", k) = 0 \/ Outstanding("save", k) = 0)
    /\ [][\A k \in Keys :
            (lastOp'.op \in {"poll", "poll_panic"} /\ LoadsDrained(k)' # {})
                => notes[k] = PendingRead]_vars

\* a save of an edited value is outstanding for one key while the load of the
\* other key is outstanding
C36_Witness ==
    \E k \in Keys, j \in Keys :
        /\ k # j
        /\ Outstanding("save", k) > 0
        /\ CellHasValue(notes[k])
        /\ notes[k].text # fs[k]
        /\ Outstanding("load", j) > 0

\* this step handled the command at the head of the command queue
Handles(cmd, k) ==
    /\ command_queue # <<>>
    /\ Head(command_queue) = Cmd(cmd, k)
    /\ command_queue' = Tail(command_queue)

\* a MarkChanged(k) stands before position i of the command queue
MarkedBefore(k, i) == \E j \in 1..(i - 1) : command_queue[j] = Cmd("MarkChanged", k)

\* C37: commands queued during a tick are executed in the order they were
\* queued, after that tick's poll and before the next one: the queue changes
\* only by an append while the frame is drawn and by the removal of its head
\* while it is drained, and a poll starts with the queue empty. An edit
\* queues MarkChanged(k) then SaveNote(k), so k is dirty when SaveNote(k) is
\* handled and the save job holds the edited text. SaveNote(k) submits a job
\* only if k is dirty at that moment; for a key that is not dirty or not
\* loaded it submits nothing and changes nothing
C37_CommandsInOrder ==
    /\ [][/\ command_queue' # command_queue =>
                \/ /\ phase \in {"explorer", "content"}
                   /\ Len(command_queue') > Len(command_queue)
                   /\ SubSeq(command_queue', 1, Len(command_queue)) = command_queue
                \/ /\ phase = "drain"
                   /\ command_queue' = Tail(command_queue)
          /\ phase' = "explorer" /\ phase # "explorer" => command_queue = <<>>
          /\ \A k \in Keys :
                /\ (phase = "content" /\ notes'[k] # notes[k]) =>
                      /\ command_queue' =
                            command_queue \o <<Cmd("MarkChanged", k), Cmd("SaveNote", k)>>
                      /\ CellHasValue(notes'[k])
                /\ Handles("MarkChanged", k) => NoteIsDirty(k)'
                /\ Handles("SaveNote", k) =>
                      IF NoteIsDirty(k)
                      THEN \/ queue' = Append(queue, Job("save", k, notes[k].text, TRUE))
                           \/ panicked' /\ ReceiverDropped
                      ELSE UNCHANGED <<notes, dirs, bg_notes, bg_dirs, error_msg, queue,
                                       panicked>>]_vars
    /\ [](\A i \in 1..Len(command_queue) : \A k \in Keys :
             command_queue[i] = Cmd("SaveNote", k) =>
                 /\ CellHasValue(notes[k])
                 /\ NoteIsDirty(k) \/ MarkedBefore(k, i))

\* the SaveNote of an edit has been handled in the tick of the edit: the save
\* job holds the text typed, which the file does not hold yet
C37_Witness ==
    /\ phase = "drain"
    /\ command_queue = <<>>
    /\ \E k \in Keys :
          /\ queue # <<>>
          /\ queue[Len(queue)] = Job("save", k, notes[k].text, TRUE)
          /\ notes[k].text # fs[k]
          /\ dirtied_after_save[k] = FALSE

\* C38: TimestampRandIdGen::next returns an id from every generator state:
\* incrementing the 16-bit counter, which starts at an arbitrary random u16
\* value, never leaves the u16 range, so no call of next ends in a panic
C38_NextAlwaysReturns == id_call # "panic"

TypeOK ==
    /\ \A k \in Keys : notes[k].tag \in {"Absent", "PendingRead", "Value"}
    /\ saves \in 0..MaxSaves
    /\ variant \in Variants
====
